---- MODULE Spec2Model ----
(***************************************************************************)
(* Model of the recording client of src/v3gyazio.py: MainWindow's start /  *)
(* pause / stop handlers and the RecorderThread they control (capture      *)
(* loop, GIF assembly, upload with local fallback).                        *)
(*                                                                         *)
(* Every RecorderThread object ever constructed is one index of `rec`.     *)
(* The handlers of MainWindow are modelled as callable at any time (the    *)
(* widgets that enable and disable the buttons are presentation only).     *)
(*                                                                         *)
(* `last` is a history variable: the last handler called and what it did.  *)
(* In `rec`, the fields attempts, resp, stopReq, pausedFrames and inflight *)
(* are history fields as well: the number of requests.post calls and the   *)
(* answer, whether stop() was called while the loop was live, the frames   *)
(* listed since pause() and whether pause() came in mid-iteration;         *)
(* capsAfterStop and pollsAfterStop count, while the thread is in its      *)
(* capture loop, the captures and pause polls it finished with the stop    *)
(* flag already set.                                                       *)
(*                                                                         *)
(* The upload server of the same file (create_server) is modelled next to  *)
(* the client: meta_file is the content of meta.json, uploads_dir the set  *)
(* of stored uploads, req the POST /upload requests, each handled by its   *)
(* own thread.  Spec runs the client against an abstract store and leaves  *)
(* the server idle; ServerSpec runs the server's requests.                 *)
(*                                                                         *)
(* Python str values are tuples of tokens: '' is <<>>, truthiness is       *)
(* non-emptiness.  Removing a file this process created in its own mkdtemp *)
(* directory (os.remove, shutil.rmtree) is modelled as succeeding.         *)
(***************************************************************************)
EXTENDS Integers, Sequences, FiniteSets, TLC

VARIABLES selected_rect, fps_combo, server_edit, recorder, rec, aborted, last,
          meta_file, uploads_dir, req

\* the recording client's state, the upload server's state
cvars == <<selected_rect, fps_combo, server_edit, recorder, rec, aborted, last>>
svars == <<meta_file, uploads_dir, req>>
vars == <<cvars, svars>>

\* ---- bounds ----
MaxSessions == 2
MaxFrames == 2
MaxReqs == 3

Sessions == 1..MaxSessions
Reqs == 1..MaxReqs

\* ---- values ----
None == <<>>
Rects == {<<0, 0, 640, 480>>, <<10, 20, 320, 240>>}
FpsInputs == {"5", "12"}
ServerInputs == {"", " ", "http://localhost:5000"}

\* int(text) on the items of the FPS combo box
IntOf(t) ==
  CASE t = "5" -> 5 [] t = "10" -> 10 [] t = "12" -> 12 [] t = "15" -> 15
    [] t = "20" -> 20 [] t = "24" -> 24 [] t = "30" -> 30

\* str.strip() on the server line edit's text
Strip(t) == IF t = " " THEN "" ELSE t

\* server_edit.text().strip() or None
ServerUrlOf(t) == IF Strip(t) = "" THEN "<None>" ELSE Strip(t)

\* Python values the upload response can carry in its 'url' field
Str(t) == [ty |-> "str", s |-> t]
PyNone == [ty |-> "NoneType", s |-> <<>>]
PyInt5 == [ty |-> "int", s |-> <<"5">>]
EmptyStr == Str(<<>>)
Urls == {Str(<<"http://store/x.gif">>), Str(<<"http://store/y.gif">>)}
Truthy(v) == \/ v.ty = "str" /\ Len(v.s) > 0
             \/ v.ty = "int"

\* str(out_gif): the artifact path inside the session's tmpdir
OutGif(s) == Str(<<"kolen_frames_", s, "recording.gif">>)

\* what requests.post(...) can produce: an exception, or a response
Exc == [status |-> 0, json |-> "none", url |-> PyNone]
Resp(st, j, u) == [status |-> st, json |-> j, url |-> u]
Responses ==
  {Exc,
   Resp(500, "invalid", PyNone),
   Resp(201, "dict", Str(<<"http://store/x.gif">>)),
   Resp(200, "invalid", PyNone),
   Resp(200, "list", PyNone),
   Resp(200, "nokey", PyNone),
   Resp(200, "dict", PyNone),
   Resp(200, "dict", EmptyStr),
   Resp(200, "dict", PyInt5)}
  \cup {Resp(200, "dict", u) : u \in Urls}

\* variant: the status code is not checked
UrlAfterPost_AnyStatus(r) ==
  IF r = Exc THEN EmptyStr
  ELSE CASE r.json = "invalid" -> EmptyStr
         [] r.json = "list" -> EmptyStr
         [] r.json = "nokey" -> EmptyStr
         [] r.json = "dict" -> IF Truthy(r.url) THEN r.url ELSE EmptyStr

\* lines 535-541: the value of `url` after the upload attempt
UrlAfterPost(r) ==
  IF r = Exc THEN EmptyStr
  ELSE IF r.status = 200
       THEN CASE r.json = "invalid" -> EmptyStr
              [] r.json = "list" -> EmptyStr
              [] r.json = "nokey" -> EmptyStr
              [] r.json = "dict" -> IF Truthy(r.url) THEN r.url ELSE EmptyStr
       ELSE EmptyStr

\* ---- RecorderThread ----
NoThread ==
  [pc |-> "none", bbox |-> None, fps |-> 0, server_url |-> "<None>",
   pause |-> FALSE, stop |-> FALSE, tmpdir |-> FALSE, files |-> {},
   gif |-> "none", gif_frames |-> <<>>, gif_fps |-> 0, frame_paths |-> <<>>, frame_num |-> 0, url |-> EmptyStr,
   progress |-> <<>>, finished |-> <<>>,
   attempts |-> 0, resp |-> Exc, stopReq |-> FALSE,
   pausedFrames |-> 0, inflight |-> FALSE,
   capsAfterStop |-> 0, pollsAfterStop |-> 0]

\* variant: the flags are class-level state carried over from the thread
\* the window held before
NewThread_InheritsFlags(bbox, fps, server_url) ==
  [NoThread EXCEPT !.pc = "init", !.bbox = bbox, !.fps = fps,
                   !.server_url = server_url, !.tmpdir = TRUE,
                   !.pause = (recorder # 0 /\ rec[recorder].pause),
                   !.stop = (recorder # 0 /\ rec[recorder].stop)]

\* RecorderThread.__init__ followed by QThread.start()
NewThread(bbox, fps, server_url) ==
  [NoThread EXCEPT !.pc = "init", !.bbox = bbox, !.fps = fps,
                   !.server_url = server_url, !.tmpdir = TRUE]

\* QThread.isRunning()
isRunning(s) == rec[s].pc \notin {"none", "done", "crashed", "released"}

\* ---- upload server (create_server) ----
\* the content of meta.json: the JSON text of a list of items, or a text that
\* json.loads rejects.  `size` is the file's extent, in items written (the
\* text of the empty list counts 1, a file just truncated has size 0).
Json(items) == [valid |-> TRUE, items |-> items, size |-> Len(items) + 1]
Truncated == [valid |-> FALSE, items |-> <<>>, size |-> 0]
Garbled(n) == [valid |-> FALSE, items |-> <<>>, size |-> n]

\* one POST /upload, handled by its own thread of the threaded server
NoReq == [pc |-> "none", file |-> FALSE, uid |-> 0, meta |-> <<>>,
          status |-> 0, url |-> 0]

\* lines 134-141: empty uploads directory, meta.json holding the empty list
ServerInit ==
  /\ meta_file = Json(<<>>)
  /\ uploads_dir = {}
  /\ req = [q \in Reqs |-> NoReq]

Init ==
  /\ selected_rect = None
  /\ fps_combo = "12"
  /\ server_edit = "http://localhost:5000"
  /\ recorder = 0
  /\ rec = [s \in Sessions |-> NoThread]
  /\ aborted = FALSE
  /\ last = <<"", "Ready">>
  /\ ServerInit

\* ---- MainWindow ----
on_select_area ==
  /\ ~aborted
  /\ \E r \in Rects \cup {None} :
       selected_rect' = IF r # None THEN r ELSE selected_rect
  /\ UNCHANGED <<fps_combo, server_edit, recorder, rec, aborted, last>>
  /\ UNCHANGED svars

SetFps ==
  /\ ~aborted
  /\ \E t \in FpsInputs : fps_combo' = t
  /\ UNCHANGED <<selected_rect, server_edit, recorder, rec, aborted, last>>
  /\ UNCHANGED svars

EditServer ==
  /\ ~aborted
  /\ \E t \in ServerInputs : server_edit' = t
  /\ UNCHANGED <<selected_rect, fps_combo, recorder, rec, aborted, last>>
  /\ UNCHANGED svars

Fresh == {s \in Sessions : rec[s].pc = "none"}

\* variant: a session whose stop was requested no longer counts as active
Active_IgnoresStopping ==
  recorder # 0 /\ isRunning(recorder) /\ ~rec[recorder].stop

\* self.recorder and self.recorder.isRunning()
Active == recorder # 0 /\ isRunning(recorder)

\* `self.recorder = RecorderThread(...)` drops the last reference to the
\* previous thread object; once that thread has ended nothing refers to it
\* or to its files again, and it is no longer tracked
Released == [NoThread EXCEPT !.pc = "released"]
Drop(f) == IF recorder # 0 /\ ~isRunning(recorder)
           THEN [f EXCEPT ![recorder] = Released] ELSE f

on_start ==
  /\ ~aborted
  /\ IF selected_rect = None
     THEN /\ last' = <<"on_start", "Please select an area first">>
          /\ UNCHANGED <<recorder, rec>>
     ELSE IF Active
     THEN /\ last' = <<"on_start", "Already recording">>
          /\ UNCHANGED <<recorder, rec>>
     ELSE /\ Fresh # {}
          /\ LET s == CHOOSE n \in Fresh : \A m \in Fresh : n <= m
             IN /\ rec' = [Drop(rec) EXCEPT ![s] =
                            NewThread(selected_rect, IntOf(fps_combo),
                                      ServerUrlOf(server_edit))]
                /\ recorder' = s
          /\ last' = <<"on_start", "Recording...">>
  /\ UNCHANGED <<selected_rect, fps_combo, server_edit, aborted>>
  /\ UNCHANGED svars

\* RecorderThread.pause / resume / stop
pause(r) == [r EXCEPT !.pause = TRUE, !.pausedFrames = 0,
                      !.inflight = (r.pc = "capture")]

resume(r) == [r EXCEPT !.pause = FALSE]

\* variant: stop() toggles the flag
stop_Toggles(r) ==
  [r EXCEPT !.stop = ~r.stop,
            !.stopReq = (@ \/ r.pc \in {"init", "loop", "chk_pause", "capture"})]

stop(r) ==
  [r EXCEPT !.stop = TRUE,
            !.stopReq = (@ \/ r.pc \in {"init", "loop", "chk_pause", "capture"})]

on_pause ==
  /\ ~aborted
  /\ IF recorder = 0
     THEN /\ last' = <<"on_pause", "no recorder">>
          /\ UNCHANGED rec
     ELSE IF ~rec[recorder].pause
     THEN /\ rec' = [rec EXCEPT ![recorder] = pause(@)]
          /\ last' = <<"on_pause", "Paused">>
     ELSE /\ rec' = [rec EXCEPT ![recorder] = resume(@)]
          /\ last' = <<"on_pause", "Recording...">>
  /\ UNCHANGED <<selected_rect, fps_combo, server_edit, recorder, aborted>>
  /\ UNCHANGED svars

on_stop ==
  /\ ~aborted
  /\ IF recorder = 0
     THEN /\ last' = <<"on_stop", "no recorder">>
          /\ UNCHANGED rec
     ELSE /\ rec' = [rec EXCEPT ![recorder] = stop(@)]
          /\ last' = <<"on_stop", IF rec[recorder].stop THEN "stop flag already set"
                                  ELSE "stop flag set">>
  /\ UNCHANGED <<selected_rect, fps_combo, server_edit, recorder, aborted>>
  /\ UNCHANGED svars

\* ---- RecorderThread.run ----
Emit(r, e) == [r EXCEPT !.progress = Append(@, e)]
Finish(r, v) == [r EXCEPT !.finished = Append(@, v), !.pc = "done"]

\* an exception that leaves run(): PyQt either aborts the process (qFatal)
\* or prints the traceback and lets the thread end
Unhandled(s) ==
  /\ rec' = [rec EXCEPT ![s].pc = "crashed"]
  /\ aborted' \in BOOLEAN

\* lines 480-484
RunInit(s) ==
  /\ ~aborted
  /\ rec[s].pc = "init"
  /\ \/ /\ rec' = [rec EXCEPT ![s] = [Emit(@, "recording") EXCEPT !.pc = "loop"]]
        /\ UNCHANGED aborted
     \/ Unhandled(s)
  /\ UNCHANGED <<selected_rect, fps_combo, server_edit, recorder, last>>
  /\ UNCHANGED svars

\* line 486: while not self._stop
LoopCheck(s) ==
  /\ ~aborted
  /\ rec[s].pc = "loop"
  /\ IF rec[s].stop
     THEN rec' = [rec EXCEPT ![s].pc = "after_loop"]
     ELSE /\ rec[s].frame_num < MaxFrames
          /\ rec' = [rec EXCEPT ![s].pc = "chk_pause"]
  /\ UNCHANGED <<selected_rect, fps_combo, server_edit, recorder, aborted, last>>
  /\ UNCHANGED svars

\* variant: the pause flag is not consulted
PauseCheck_NoPoll(s) ==
  /\ ~aborted
  /\ rec[s].pc = "chk_pause"
  /\ rec' = [rec EXCEPT ![s].pc = "capture"]
  /\ UNCHANGED <<selected_rect, fps_combo, server_edit, recorder, aborted, last>>
  /\ UNCHANGED svars

\* variant: the pause wait is an inner loop that does not look at _stop
PauseCheck_SpinsInside(s) ==
  /\ ~aborted
  /\ rec[s].pc = "chk_pause"
  /\ IF rec[s].pause
     THEN rec' = [rec EXCEPT ![s].pollsAfterStop = IF rec[s].stop THEN @ + 1 ELSE @]
     ELSE rec' = [rec EXCEPT ![s].pc = "capture"]
  /\ UNCHANGED <<selected_rect, fps_combo, server_edit, recorder, aborted, last>>
  /\ UNCHANGED svars

\* lines 487-489: if self._pause: sleep(0.05); continue
PauseCheck(s) ==
  /\ ~aborted
  /\ rec[s].pc = "chk_pause"
  /\ IF rec[s].pause
     THEN rec' = [rec EXCEPT ![s].pc = "loop",
                             ![s].pollsAfterStop = IF rec[s].stop THEN @ + 1 ELSE @]
     ELSE rec' = [rec EXCEPT ![s].pc = "capture"]
  /\ UNCHANGED <<selected_rect, fps_combo, server_edit, recorder, aborted, last>>
  /\ UNCHANGED svars

\* lines 490-506 (one frame grabbed, saved and listed) and, when grab or
\* save raises, the handler of lines 507-509
\* variant: frame_num is advanced before the frame is saved
CaptureOk_CountsFirst(r) ==
  [r EXCEPT !.files = @ \cup {r.frame_num + 1},
            !.frame_paths = Append(@, r.frame_num + 1),
            !.frame_num = @ + 1,
            !.pausedFrames = IF r.pause THEN @ + 1 ELSE @,
            !.capsAfterStop = IF r.stop THEN @ + 1 ELSE @,
            !.pc = "loop"]

\* variant: every frame is saved under the same name
CaptureOk_OneFile(r) ==
  [r EXCEPT !.files = {r.frame_num},
            !.frame_paths = Append(@, r.frame_num),
            !.frame_num = @ + 1,
            !.pausedFrames = IF r.pause THEN @ + 1 ELSE @,
            !.capsAfterStop = IF r.stop THEN @ + 1 ELSE @,
            !.pc = "loop"]

CaptureOk(r) ==
  [r EXCEPT !.files = @ \cup {r.frame_num},
            !.frame_paths = Append(@, r.frame_num),
            !.frame_num = @ + 1,
            !.pausedFrames = IF r.pause THEN @ + 1 ELSE @,
            !.capsAfterStop = IF r.stop THEN @ + 1 ELSE @,
            !.pc = "loop"]

\* variant: the failure is reported and the loop goes on
CaptureFails_Continues(r) ==
  [Emit(r, "error") EXCEPT !.capsAfterStop = IF r.stop THEN @ + 1 ELSE @,
                           !.pc = "loop"]

CaptureFails(r) ==
  [Emit(r, "error") EXCEPT !.stop = TRUE,
                           !.capsAfterStop = IF r.stop THEN @ + 1 ELSE @,
                           !.pc = "after_loop"]

Capture(s) ==
  /\ ~aborted
  /\ rec[s].pc = "capture"
  /\ \/ rec' = [rec EXCEPT ![s] = CaptureOk(@)]
     \/ rec' = [rec EXCEPT ![s] = CaptureFails(@)]
  /\ UNCHANGED <<selected_rect, fps_combo, server_edit, recorder, aborted, last>>
  /\ UNCHANGED svars

\* variant: the spool directory is left behind
NoFrames_KeepsSpool(r) == Finish(Emit(r, "no_frames"), EmptyStr)

\* lines 511-520
NoFrames(r) ==
  Finish([Emit(r, "no_frames") EXCEPT !.tmpdir = FALSE, !.files = {}], EmptyStr)

\* variant: assembling is announced before the frame list is looked at
AfterLoop_AnnouncesFirst(s) ==
  /\ ~aborted
  /\ rec[s].pc = "after_loop"
  /\ IF Len(rec[s].frame_paths) = 0
     THEN rec' = [rec EXCEPT ![s] =
                    NoFrames(Emit([@ EXCEPT !.capsAfterStop = 0, !.pollsAfterStop = 0],
                                  "assembling"))]
     ELSE rec' = [rec EXCEPT ![s] =
                    [Emit(@, "assembling") EXCEPT !.capsAfterStop = 0,
                                                  !.pollsAfterStop = 0,
                                                  !.pc = "assembling"]]
  /\ UNCHANGED <<selected_rect, fps_combo, server_edit, recorder, aborted, last>>
  /\ UNCHANGED svars

\* the loop is left: its iteration counts are no longer kept
LeftLoop(r) == [r EXCEPT !.capsAfterStop = 0, !.pollsAfterStop = 0]

AfterLoop(s) ==
  /\ ~aborted
  /\ rec[s].pc = "after_loop"
  /\ IF Len(rec[s].frame_paths) = 0
     THEN rec' = [rec EXCEPT ![s] = NoFrames(LeftLoop(@))]
     ELSE rec' = [rec EXCEPT ![s] = [Emit(LeftLoop(@), "assembling") EXCEPT !.pc = "assembling"]]
  /\ UNCHANGED <<selected_rect, fps_combo, server_edit, recorder, aborted, last>>
  /\ UNCHANGED svars

\* variant: the playback rate is read from the combo box at assembly time
AssembleOk_LiveRate(r) ==
  [r EXCEPT !.gif = "complete", !.gif_frames = r.frame_paths,
            !.gif_fps = IntOf(fps_combo), !.pc = "deliver"]

\* lines 521-525: imageio.mimsave of the listed frames, in list order
AssembleOk(r) ==
  [r EXCEPT !.gif = "complete", !.gif_frames = r.frame_paths,
            !.gif_fps = r.fps, !.pc = "deliver"]

\* variant: the `return` after the failed mimsave is missing
AssembleFails_FallsThrough(r, left) ==
  [Emit(r, "error") EXCEPT !.gif = left, !.pc = "deliver"]

\* variant: the frame files are cleaned up on the failure path as well
AssembleFails_Cleans(r, left) ==
  Finish([Emit(r, "error") EXCEPT !.gif = left, !.files = {}], EmptyStr)

AssembleFails(r, left) == Finish([Emit(r, "error") EXCEPT !.gif = left], EmptyStr)

Assemble(s) ==
  /\ ~aborted
  /\ rec[s].pc = "assembling"
  /\ \/ rec' = [rec EXCEPT ![s] = AssembleOk(@)]
     \/ \E left \in {"none", "partial"} :
          rec' = [rec EXCEPT ![s] = AssembleFails(@, left)]
  /\ UNCHANGED <<selected_rect, fps_combo, server_edit, recorder, aborted, last>>
  /\ UNCHANGED svars

\* lines 528-530 and 542-543
Deliver(s) ==
  /\ ~aborted
  /\ rec[s].pc = "deliver"
  /\ IF rec[s].server_url \notin {"<None>", ""}
     THEN rec' = [rec EXCEPT ![s] = [Emit(@, "uploading") EXCEPT !.pc = "uploading"]]
     ELSE rec' = [rec EXCEPT ![s].url = OutGif(s), ![s].pc = "cleanup"]
  /\ UNCHANGED <<selected_rect, fps_combo, server_edit, recorder, aborted, last>>
  /\ UNCHANGED svars

\* variant: a failed post is tried again
Upload_Retries(s) ==
  /\ ~aborted
  /\ rec[s].pc = "uploading"
  /\ \E r \in Responses :
       rec' = [rec EXCEPT ![s].url = UrlAfterPost(r), ![s].resp = r,
                          ![s].attempts = @ + 1,
                          ![s].pc = IF Truthy(UrlAfterPost(r)) \/ rec[s].attempts >= 2
                                    THEN "cleanup" ELSE "uploading"]
  /\ UNCHANGED <<selected_rect, fps_combo, server_edit, recorder, aborted, last>>
  /\ UNCHANGED svars

\* variant: a failed post is reported as an error
Upload_ReportsFailure(s) ==
  /\ ~aborted
  /\ rec[s].pc = "uploading"
  /\ \E r \in Responses :
       rec' = [rec EXCEPT ![s].url = UrlAfterPost(r), ![s].resp = r,
                          ![s].attempts = @ + 1, ![s].pc = "cleanup",
                          ![s].progress = IF Truthy(UrlAfterPost(r)) THEN @
                                          ELSE Append(@, "error")]
  /\ UNCHANGED <<selected_rect, fps_combo, server_edit, recorder, aborted, last>>
  /\ UNCHANGED svars

\* variant: the local artifact is deleted once the store has it
Upload_DropsLocal(s) ==
  /\ ~aborted
  /\ rec[s].pc = "uploading"
  /\ \E r \in Responses :
       rec' = [rec EXCEPT ![s].url = UrlAfterPost(r), ![s].resp = r,
                          ![s].attempts = @ + 1, ![s].pc = "cleanup",
                          ![s].gif = IF Truthy(UrlAfterPost(r)) THEN "none" ELSE @]
  /\ UNCHANGED <<selected_rect, fps_combo, server_edit, recorder, aborted, last>>
  /\ UNCHANGED svars

\* lines 531-541: the one requests.post
Upload(s) ==
  /\ ~aborted
  /\ rec[s].pc = "uploading"
  /\ \E r \in Responses :
       rec' = [rec EXCEPT ![s].url = UrlAfterPost(r), ![s].resp = r,
                          ![s].attempts = @ + 1, ![s].pc = "cleanup"]
  /\ UNCHANGED <<selected_rect, fps_combo, server_edit, recorder, aborted, last>>
  /\ UNCHANGED svars

\* lines 545-553: remove the listed frame files, emit the final result
\* (finished_signal is pyqtSignal(str): a non-str argument raises TypeError)
\* variant: frames are removed only after a successful upload
RemoveFrames_OnlyAfterUpload(r) ==
  IF r.attempts > 0 /\ Truthy(r.url)
  THEN [r EXCEPT !.files = @ \ {r.frame_paths[i] : i \in 1..Len(r.frame_paths)}]
  ELSE r

\* variant: the whole spool directory is removed
RemoveFrames_RemovesSpool(r) ==
  [r EXCEPT !.files = {}, !.tmpdir = FALSE, !.gif = "none"]

RemoveFrames(r) ==
  [r EXCEPT !.files = @ \ {r.frame_paths[i] : i \in 1..Len(r.frame_paths)}]

\* variant: the local path is always reported
FinalResult_AlwaysLocal(r, s) == OutGif(s)

FinalResult(r, s) == IF Truthy(r.url) THEN r.url ELSE OutGif(s)

Cleanup(s) ==
  /\ ~aborted
  /\ rec[s].pc = "cleanup"
  /\ IF FinalResult(rec[s], s).ty = "str"
     THEN /\ rec' = [rec EXCEPT ![s] = Finish(RemoveFrames(@), FinalResult(@, s))]
          /\ UNCHANGED aborted
     ELSE /\ rec' = [rec EXCEPT ![s] = [RemoveFrames(@) EXCEPT !.pc = "crashed"]]
          /\ aborted' \in BOOLEAN
  /\ UNCHANGED <<selected_rect, fps_combo, server_edit, recorder, last>>
  /\ UNCHANGED svars

run(s) ==
  \/ RunInit(s) \/ LoopCheck(s) \/ PauseCheck(s) \/ Capture(s) \/ AfterLoop(s)
  \/ Assemble(s) \/ Deliver(s) \/ Upload(s) \/ Cleanup(s)

Next ==
  \/ on_select_area \/ SetFps \/ EditServer
  \/ on_start \/ on_pause \/ on_stop
  \/ \E s \in Sessions : run(s)

Spec == Init /\ [][Next]_vars

\* ---- create_server.upload ----
Respond(r, status) == [r EXCEPT !.status = status, !.pc = "done"]

\* a POST /upload arrives, with or without a file part
Post(q) ==
  /\ req[q].pc = "none"
  /\ \E f \in BOOLEAN : req' = [req EXCEPT ![q].pc = "upload", ![q].file = f]
  /\ UNCHANGED <<meta_file, uploads_dir>>
  /\ UNCHANGED cvars

\* lines 171-178: the 'no file' answer, or the upload is stored under a new
\* uuid4 name (f.save can raise: the request is answered 500)
upload_Save(q) ==
  /\ req[q].pc = "upload"
  /\ IF ~req[q].file
     THEN /\ req' = [req EXCEPT ![q] = Respond(@, 400)]
          /\ UNCHANGED uploads_dir
     ELSE \/ /\ req' = [req EXCEPT ![q].uid = q, ![q].pc = "read_meta"]
             /\ uploads_dir' = uploads_dir \cup {q}
          \/ /\ req' = [req EXCEPT ![q] = Respond(@, 500)]
             /\ UNCHANGED uploads_dir
  /\ UNCHANGED meta_file
  /\ UNCHANGED cvars

\* lines 143-144: json.loads(meta_file.read_text())
read_meta(q) ==
  /\ req[q].pc = "read_meta"
  /\ IF meta_file.valid
     THEN req' = [req EXCEPT ![q].meta = meta_file.items, ![q].pc = "append"]
     ELSE req' = [req EXCEPT ![q] = Respond(@, 500)]
  /\ UNCHANGED <<meta_file, uploads_dir>>
  /\ UNCHANGED cvars

\* lines 180-181 and the open(..., 'w') of write_text: the item is appended
\* to the list read and meta.json is truncated
upload_Append(q) ==
  /\ req[q].pc = "append"
  /\ req' = [req EXCEPT ![q].meta = Append(@, req[q].uid), ![q].pc = "write_meta"]
  /\ meta_file' = Truncated
  /\ UNCHANGED uploads_dir
  /\ UNCHANGED cvars

\* what a write of the list d at offset 0 leaves in a file: d's text when
\* the file is shorter, d's text followed by the rest of the old bytes when
\* it is longer
Written(file, d) ==
  IF file.size < Len(d) + 1 THEN {Json(d)}
  ELSE IF file.size > Len(d) + 1 THEN {Garbled(file.size)}
  ELSE {Json(d), Garbled(file.size)}

\* line 147 (the write and close of write_text) and lines 183-184
write_meta(q) ==
  /\ req[q].pc = "write_meta"
  /\ meta_file' \in Written(meta_file, req[q].meta)
  /\ req' = [req EXCEPT ![q] = [Respond(@, 200) EXCEPT !.url = req[q].uid]]
  /\ UNCHANGED uploads_dir
  /\ UNCHANGED cvars

upload(q) ==
  \/ upload_Save(q) \/ read_meta(q) \/ upload_Append(q) \/ write_meta(q)

ServerNext == \E q \in Reqs : Post(q) \/ upload(q)

ServerSpec == Init /\ [][ServerNext]_vars

\* ---- properties ----
Running == {s \in Sessions : isRunning(s)}
InLoop(s) == rec[s].pc \in {"loop", "chk_pause", "capture"}
Listed(r) == {r.frame_paths[i] : i \in 1..Len(r.frame_paths)}
HasTarget(r) == r.server_url \notin {"<None>", ""}

\* C1: at most one RecorderThread is running in any state, and an on_start
\* issued while the current recorder is running creates no thread and no
\* spool directory and leaves every thread's flags, frames and configuration
\* as they were.
C1_SingleSession ==
  [][ /\ Cardinality({s \in Sessions : isRunning(s)'}) <= 1
      /\ (on_start /\ recorder # 0 /\ isRunning(recorder))
           => /\ UNCHANGED <<recorder, rec>>
              /\ last' = <<"on_start", "Already recording">> ]_vars

C1_Witness ==
  /\ last = <<"on_start", "Already recording">>
  /\ recorder = 2
  /\ rec[2].pc = "capture"
  /\ Len(rec[2].frame_paths) >= 1
  /\ Running = {2}

\* C2 (as stated): while the pause flag is set, no frame is listed after
\* pause() returned.
C2_NoFrameWhilePaused ==
  \A s \in Sessions : rec[s].pause => rec[s].pausedFrames = 0

\* C2 (amended): while the pause flag is set, at most one frame is listed
\* after pause() returned, and only when pause() came in while a capture
\* iteration had already passed its pause check; otherwise none.
C2_AtMostInFlightFrame ==
  \A s \in Sessions :
    rec[s].pause => rec[s].pausedFrames <= (IF rec[s].inflight THEN 1 ELSE 0)

C2_Witness ==
  \E s \in Sessions :
    /\ rec[s].pause /\ rec[s].inflight /\ rec[s].pausedFrames = 1
    /\ rec[s].pc = "loop" /\ ~rec[s].stop

Ended(s) == rec[s].pc \in {"done", "crashed"}
Has(r, e) == \E i \in 1..Len(r.progress) : r.progress[i] = e

\* the post raised (timeout, connection error), answered with a status other
\* than 200, or answered 200 without a usable url
PostFailed(r) ==
  \/ r = Exc
  \/ r.status # 200
  \/ r.json # "dict"
  \/ r.url \in {PyNone, EmptyStr}

\* the post answered 200 with a JSON object whose url is a non-empty string
PostSucceeded(r) ==
  r # Exc /\ r.status = 200 /\ r.json = "dict" /\ r.url.ty = "str" /\ Len(r.url.s) > 0

\* C3 (final-state form): a session on which stop() was called while it was
\* running or paused, and whose task has ended, has reported a final result
\* and has emitted no_frames or produced the artifact.
C3_StopCompletes ==
  \A s \in Sessions :
    (rec[s].stopReq /\ Ended(s)) =>
       /\ Len(rec[s].finished) = 1
       /\ Has(rec[s], "no_frames") \/ rec[s].gif = "complete"

\* C4: stop() is idempotent on every reachable thread state; an on_stop that
\* finds the stop flag already set changes nothing at all, and no on_stop
\* changes any thread's position, frames, files, events or result.
Observable(r) ==
  <<r.pc, r.frame_paths, r.frame_num, r.files, r.tmpdir, r.gif, r.progress,
    r.finished, r.url, r.pause>>

C4_StopIdempotent ==
  [][ /\ \A s \in Sessions : stop(stop(rec[s])) = stop(rec[s])
      /\ (on_stop /\ recorder # 0) =>
           /\ rec[recorder].stop => rec' = rec
           /\ rec'[recorder].stop
           /\ \A s \in Sessions : Observable(rec'[s]) = Observable(rec[s]) ]_vars

C4_Witness ==
  /\ last = <<"on_stop", "stop flag already set">>
  /\ recorder # 0
  /\ rec[recorder].stopReq
  /\ rec[recorder].pc = "done"
  /\ ~Has(rec[recorder], "error")
  /\ Len(rec[recorder].finished) = 1

C6_DeliveryFailureAbsorbed ==
  \A s \in Sessions :
    /\ \A i, j \in 1..Len(rec[s].progress) :
         (i < j /\ rec[s].progress[i] = "uploading") => rec[s].progress[j] # "error"
    /\ (rec[s].pc = "done" /\ rec[s].attempts > 0 /\ PostFailed(rec[s].resp)) =>
          rec[s].finished = <<OutGif(s)>>

C6_Witness ==
  \E s \in Sessions :
    /\ rec[s].pc = "done" /\ rec[s].attempts = 1
    /\ rec[s].resp.status = 201
    /\ rec[s].finished = <<OutGif(s)>>

C9_OneAttempt ==
  \A s \in Sessions :
    /\ rec[s].attempts <= 1
    /\ rec[s].attempts = 1 => (HasTarget(rec[s]) /\ rec[s].gif = "complete")
    /\ Ended(s) =>
         rec[s].attempts = (IF HasTarget(rec[s]) /\ rec[s].gif = "complete" THEN 1 ELSE 0)
    /\ (rec[s].pc # "none" /\ ~HasTarget(rec[s])) =>
         /\ ~Has(rec[s], "uploading")
         /\ (rec[s].pc = "done" /\ rec[s].gif = "complete") =>
               rec[s].finished = <<OutGif(s)>>

C9_Witness ==
  \E s \in Sessions :
    /\ rec[s].pc = "done" /\ rec[s].attempts = 1 /\ rec[s].resp.status = 500
    /\ Has(rec[s], "uploading")

\* C10: a reported final result is the empty string, the local artifact path
\* or the url the store sent; it is non-empty only when the artifact was
\* assembled completely, and empty exactly when it was not.
C10_Outcomes ==
  \A s \in Sessions :
    /\ rec[s].pc = "done" <=> Len(rec[s].finished) = 1
    /\ Len(rec[s].finished) <= 1
    /\ Len(rec[s].finished) = 1 =>
         LET v == rec[s].finished[1]
         IN /\ \/ v = EmptyStr
               \/ v = OutGif(s)
               \/ rec[s].attempts = 1 /\ v = rec[s].resp.url /\ v # EmptyStr
            /\ v = EmptyStr <=> rec[s].gif # "complete"

C10_Witness ==
  \E s \in Sessions :
    /\ rec[s].pc = "done" /\ rec[s].gif = "partial"
    /\ rec[s].finished = <<EmptyStr>> /\ Len(rec[s].frame_paths) >= 1

Count(r, e) == Cardinality({i \in 1..Len(r.progress) : r.progress[i] = e})

\* an error event emitted by the capture loop's handler (before assembling)
CaptureFailed(r) ==
  \E i \in 1..Len(r.progress) :
    r.progress[i] = "error" /\ \A j \in 1..i : r.progress[j] # "assembling"

\* C11 (as stated): a session whose capture or spool write failed reports the
\* empty final result, whatever the number of frames listed before.
C11_CaptureFailureEmpty ==
  \A s \in Sessions :
    (rec[s].pc = "done" /\ CaptureFailed(rec[s])) => rec[s].finished = <<EmptyStr>>

\* C11 (amended): a capture or spool-write failure ends the capture loop at
\* once (stop flag set, no further iteration); the final result is empty
\* exactly when no frame was listed before the failure or assembly failed,
\* otherwise the frames listed so far are assembled and delivered.
C11_CaptureFailureEndsLoop ==
  \A s \in Sessions :
    CaptureFailed(rec[s]) =>
       /\ rec[s].stop /\ ~InLoop(s)
       /\ Count(rec[s], "error") >= 1 /\ rec[s].progress[2] = "error"
       /\ rec[s].pc = "done" =>
            (rec[s].finished = <<EmptyStr>>
               <=> (Len(rec[s].frame_paths) = 0 \/ rec[s].gif # "complete"))

C11_Witness ==
  \E s \in Sessions :
    /\ rec[s].pc = "done" /\ CaptureFailed(rec[s])
    /\ Len(rec[s].frame_paths) = 1
    /\ rec[s].finished = <<OutGif(s)>>

\* C12 (as stated): a session emits at most one error event.
C12_OneError ==
  \A s \in Sessions : Count(rec[s], "error") <= 1

\* C12 (amended): each failing stage reports once: at most one error event
\* comes from the capture loop and at most one from assembly (so at most two
\* per session), and none follows the uploading event.
C12_OneErrorPerStage ==
  \A s \in Sessions :
    LET r == rec[s]
        before == {i \in 1..Len(r.progress) :
                     r.progress[i] = "error" /\ \A j \in 1..i : r.progress[j] # "assembling"}
        after == {i \in 1..Len(r.progress) :
                     r.progress[i] = "error" /\ \E j \in 1..i : r.progress[j] = "assembling"}
    IN /\ Cardinality(before) <= 1
       /\ Cardinality(after) <= 1
       /\ \A i \in after : \A j \in 1..i : r.progress[j] # "uploading"
       /\ Cardinality(after) = 1 => (r.pc = "done" /\ r.gif # "complete")

C12_Witness ==
  \E s \in Sessions :
    /\ rec[s].pc = "done"
    /\ rec[s].progress = <<"recording", "error", "assembling", "error">>

C14_FrameOrder ==
  \A s \in Sessions :
    /\ Len(rec[s].frame_paths) = rec[s].frame_num
    /\ \A k \in 1..Len(rec[s].frame_paths) : rec[s].frame_paths[k] = k - 1
    /\ (InLoop(s) \/ rec[s].pc \in {"after_loop", "assembling"}) =>
          rec[s].files = Listed(rec[s])
    /\ rec[s].gif = "complete" =>
          /\ rec[s].gif_frames = rec[s].frame_paths
          /\ \A k \in 1..Len(rec[s].gif_frames) : rec[s].gif_frames[k] = k - 1

C14_Witness ==
  \E s \in Sessions :
    /\ rec[s].gif = "complete" /\ rec[s].gif_frames = <<0, 1>>
    /\ rec[s].pause /\ rec[s].pausedFrames = 1

\* C15: recording is the first event and occurs once; assembling occurs at
\* most once, after the loop has ended with a frame; uploading occurs at most
\* once, after assembling and only with a delivery target; no_frames and
\* assembling exclude each other; no progress event follows the final result.
C15_EventOrder ==
  [][\A s \in Sessions :
       LET r == rec'[s]
           n == Len(r.progress)
       IN /\ (n > 0 \/ r.finished # <<>>) =>
               (r.progress[1] = "recording" /\ Count(r, "recording") = 1)
          /\ Count(r, "assembling") <= 1
          /\ Has(r, "assembling") =>
               /\ Len(r.frame_paths) >= 1
               /\ r.pc \notin {"init", "loop", "chk_pause", "capture", "after_loop"}
          /\ Count(r, "uploading") <= 1
          /\ \A j \in 1..n : r.progress[j] = "uploading" =>
               (HasTarget(r) /\ \E i \in 1..(j - 1) : r.progress[i] = "assembling")
          /\ ~(Has(r, "no_frames") /\ Has(r, "assembling"))
          /\ r.finished # <<>> => r.pc = "done"
          /\ (rec[s].finished # <<>> /\ r.pc # "released") =>
               r.progress = rec[s].progress
    ]_vars

C15_Witness ==
  \E s \in Sessions :
    /\ rec[s].pc = "done" /\ Len(rec[s].finished) = 1
    /\ rec[s].progress = <<"recording", "assembling", "uploading">>

\* C16: when assembly fails the session emits error, reports the empty
\* result, makes no upload attempt and deletes none of the listed frames.
C16_AssemblyFailure ==
  \A s \in Sessions :
    (rec[s].pc = "done" /\ Has(rec[s], "assembling") /\ rec[s].gif # "complete") =>
       /\ rec[s].progress[Len(rec[s].progress)] = "error"
       /\ rec[s].finished = <<EmptyStr>>
       /\ rec[s].attempts = 0 /\ ~Has(rec[s], "uploading")
       /\ Listed(rec[s]) \subseteq rec[s].files /\ rec[s].tmpdir

C16_Witness ==
  \E s \in Sessions :
    /\ rec[s].pc = "done" /\ rec[s].gif = "none" /\ HasTarget(rec[s])
    /\ rec[s].progress = <<"recording", "assembling", "error">>
    /\ rec[s].files = {0, 1}

\* C17: a session whose task has ended has delivered exactly one final
\* result.
C17_OneFinalResult ==
  \A s \in Sessions : Ended(s) => Len(rec[s].finished) = 1

\* C18: once the artifact is assembled its file, and the directory holding
\* it, exist in every later state of the session, whatever the delivery
\* outcome.
C18_ArtifactKept ==
  [][\A s \in Sessions :
       (rec[s].gif = "complete" /\ rec'[s].pc # "released") =>
          (rec'[s].gif = "complete" /\ rec'[s].tmpdir)
    ]_vars

C18_Witness ==
  \E s \in Sessions :
    /\ rec[s].pc = "done" /\ rec[s].gif = "complete" /\ rec[s].tmpdir
    /\ rec[s].attempts = 1 /\ PostSucceeded(rec[s].resp)
    /\ Len(rec[s].frame_paths) = 2 /\ rec[s].files = {}

\* C19: with the stop flag set the thread finishes at most one more loop
\* iteration (one capture or one pause poll, the one in flight), and a loop
\* check that sees the flag never starts another.
C19_StopLatency ==
  [][\A s \in Sessions :
       /\ rec'[s].capsAfterStop + rec'[s].pollsAfterStop <= 1
       /\ (rec[s].stop /\ rec[s].pc = "loop") => rec'[s].pc \in {"loop", "after_loop"}
       /\ (rec[s].stop /\ rec[s].pc \in {"after_loop", "assembling"}) =>
             rec'[s].frame_paths = rec[s].frame_paths
    ]_vars

C19_Witness ==
  \E s \in Sessions :
    /\ rec[s].stopReq /\ rec[s].pc = "after_loop" /\ ~Has(rec[s], "error")
    /\ rec[s].capsAfterStop = 1 /\ Len(rec[s].frame_paths) = 2

\* C20: frame files are written only while the thread is in its capture
\* loop and read or deleted only after it has left the loop for good.
Writing(r) == r.pc \in {"init", "loop", "chk_pause", "capture"}
Reading(r) == r.pc \in {"assembling", "deliver", "uploading", "cleanup", "done", "crashed"}

C20_WriterThenReader ==
  [][\A s \in Sessions :
       /\ Writing(rec[s]) =>
            /\ rec[s].files \subseteq rec'[s].files
            /\ rec'[s].gif = rec[s].gif /\ rec'[s].gif_frames = rec[s].gif_frames
       /\ (Reading(rec[s]) \/ rec[s].pc = "after_loop") =>
            /\ rec'[s].files \subseteq rec[s].files
            /\ rec'[s].frame_paths = rec[s].frame_paths \/ rec'[s].pc = "released"
            /\ ~Writing(rec'[s])
    ]_vars

C20_Witness ==
  \E s \in Sessions :
    /\ rec[s].pc = "assembling" /\ rec[s].pause /\ rec[s].stopReq
    /\ rec[s].files = {0, 1}

\* C21: bbox, fps and server_url of a thread are the values the window held
\* when on_start constructed it, and no later step (pause, resume, stop, a
\* loop iteration, assembly, delivery, a new selection, a change of the FPS
\* combo box or of the server field) changes them; the artifact is written
\* with the thread's fps as its playback rate.
Config(r) == <<r.bbox, r.fps, r.server_url>>

C21_ConfigFixed ==
  [][\A s \in Sessions :
       /\ (rec[s].pc = "none" /\ rec'[s].pc # "none") =>
            Config(rec'[s]) =
              <<selected_rect, IntOf(fps_combo), ServerUrlOf(server_edit)>>
       /\ (rec[s].pc \notin {"none", "released"} /\ rec'[s].pc # "released") =>
            Config(rec'[s]) = Config(rec[s])
       /\ rec'[s].gif = "complete" => rec'[s].gif_fps = rec'[s].fps
    ]_vars

C21_Witness ==
  \E s \in Sessions :
    /\ rec[s].gif = "complete" /\ rec[s].gif_fps = 5 /\ fps_combo = "12"
    /\ rec[s].bbox # selected_rect
    /\ HasTarget(rec[s]) /\ server_edit = ""
    /\ rec[s].pause /\ rec[s].stopReq /\ Len(rec[s].frame_paths) = 2

\* C22: a session that assembled its artifact and whose task has ended
\* reports the url the store sent when the post answered 200 with a non-empty
\* string url, reports a remote reference in no other case, and in every
\* other case reports the non-empty local artifact path.
C22_RemoteOnlyOn200 ==
  \A s \in Sessions :
    (Ended(s) /\ rec[s].gif = "complete") =>
       /\ Len(OutGif(s).s) > 0
       /\ IF rec[s].attempts = 1 /\ PostSucceeded(rec[s].resp)
          THEN rec[s].finished = <<rec[s].resp.url>>
          ELSE rec[s].finished = <<OutGif(s)>>

\* C23: a thread comes into being only by on_start, as a new object that
\* becomes the window's recorder; it is running, at the start of run(), with
\* both flags clear, no frame listed, no event or result emitted, and a
\* spool directory of its own that is empty and is not the directory of the
\* thread the window held before, whatever flags, frames and position that
\* thread had; the first on_pause on it pauses.
C23_FreshSession ==
  [][/\ \A s \in Sessions :
          (rec[s].pc = "none" /\ rec'[s].pc # "none") =>
             /\ on_start /\ recorder' = s /\ recorder # s
             /\ rec'[s].pc = "init" /\ isRunning(s)'
             /\ ~rec'[s].pause /\ ~rec'[s].stop
             /\ rec'[s].frame_paths = <<>> /\ rec'[s].frame_num = 0
             /\ rec'[s].tmpdir /\ rec'[s].files = {} /\ rec'[s].gif = "none"
             /\ rec'[s].progress = <<>> /\ rec'[s].finished = <<>>
             /\ recorder # 0 => (~isRunning(recorder) /\ OutGif(s) # OutGif(recorder))
     /\ (on_pause /\ recorder # 0 /\ rec[recorder].pc = "init") =>
          rec'[recorder].pause = ~rec[recorder].pause
    ]_vars

C23_Witness ==
  /\ last = <<"on_start", "Recording...">>
  /\ recorder = 2 /\ rec[1].pc = "released"
  /\ rec[2].pc = "init" /\ ~rec[2].pause /\ ~rec[2].stop
  /\ rec[2].frame_paths = <<>> /\ rec[2].tmpdir

\* C24: once no request is in flight, meta.json lists every upload that was
\* answered with a url exactly once (none lost, none twice) and nothing
\* else; a request without a file part is answered 400 without a url and
\* leaves meta.json and the uploads directory as they were.
Quiet == \A q \in Reqs : req[q].pc \in {"none", "done"}
Answered == {q \in Reqs : req[q].pc = "done" /\ req[q].status = 200}
Entries(u) == {i \in 1..Len(meta_file.items) : meta_file.items[i] = u}

C24_OneEntryPerUpload ==
  [][/\ Quiet' =>
          /\ meta_file'.valid
          /\ \A q \in Answered' : Cardinality(Entries(req[q].url)') = 1 /\ req'[q].url = q
          /\ Len(meta_file'.items) = Cardinality(Answered')
     /\ \A q \in Reqs :
          (req[q].pc = "upload" /\ ~req[q].file /\ req'[q].pc # "upload") =>
             /\ req'[q].status = 400 /\ req'[q].url = 0
             /\ meta_file' = meta_file /\ uploads_dir' = uploads_dir
    ]_vars
====
